---------------------------- MODULE Spec2Model ----------------------------
(***************************************************************************)
(* Model of the ChatPDF front end:                                         *)
(*   - ApiService.streamMessage, the streaming consumer                    *)
(*     (src/ChatUI/src/services/api.js), specification StreamSpec;         *)
(*   - the App component's session / document / chat orchestration         *)
(*     (src/unnamed/part_000), specification Spec.                         *)
(* Text is modelled as sequences of one-character strings, so that         *)
(* splitting, prefix tests, trimming and JSON parsing are computed.        *)
(***************************************************************************)
EXTENDS Integers, Sequences, FiniteSets, TLC

VARIABLES
    \* ---- streamMessage (api.js 123-173)
    sWire,      \* the whole response body, as characters in wire order
    sPos,       \* how many characters reader.read() has handed out so far
    sPc,        \* position of the call: fetching / reading / ended how
    sOk,        \* response.ok of the initial response: "none" before it, then
                \* "true" or "false"
    sCalls,     \* the callbacks invoked so far, in order
    \* ---- App state (part_000 26-32)
    sessionId,          \* "null" or the session id
    documents,          \* sequence of [id, filename, size, status]
    messages,           \* sequence of chat messages
    inputMessage,       \* the text area's content
    isLoading,
    processingStatus,   \* "null" or the last poll response's job status
    error,              \* "null" or the banner's text
    \* ---- requests in flight and the environment
    sessionReq,         \* the createSession request of the mount effect
    chatReqs,           \* chat requests awaiting their response
    uploads,            \* upload requests awaiting their response
    polls,              \* per job: the polling loop's position and request count
    jobDocs,            \* server side: each job's documents [document_id, status],
                        \* in upload order, as last reported
    nSends, nDrops, nDocs,   \* accepted sends, accepted drops, server document ids
    now,                \* Date.now()
    lastOp,             \* the operation that ran last, and how it left
    limit,              \* the number of requests the client may issue in this run
    \* ---- ApiService.request and uploadDocuments (api.js 13-37, 63-85)
    httpCall,           \* the call last made: method, and the response it got
    httpOutcome         \* how that call settled: returned, or threw what

streamVars == <<sWire, sPos, sPc, sOk, sCalls>>

httpVars == <<httpCall, httpOutcome>>

appState == <<sessionId, documents, messages, inputMessage, isLoading,
              processingStatus, error>>

appVars == <<sessionId, documents, messages, inputMessage, isLoading,
             processingStatus, error, sessionReq, chatReqs, uploads, polls,
             jobDocs, nSends, nDrops, nDocs, now, lastOp, limit>>

vars == <<sWire, sPos, sPc, sOk, sCalls,
          sessionId, documents, messages, inputMessage, isLoading,
          processingStatus, error, sessionReq, chatReqs, uploads, polls,
          jobDocs, nSends, nDrops, nDocs, now, lastOp, limit,
          httpCall, httpOutcome>>

-----------------------------------------------------------------------------
(* Bounds *)

\* lines in a response body
MaxLines == 2
\* requests the client issues in a run: chat, upload and status requests
\* together (a drop counts two, its upload and its job's first status request)
MaxRequests == 3
\* the same, in the runs of the document operations alone
MaxDocRequests == 4

-----------------------------------------------------------------------------
(* Text helpers (JavaScript String methods) *)

NL == "\n"

\* the event marker 'data: ' (api.js 152) and the sentinel '[DONE]' (api.js 155)
DataPrefix == <<"d", "a", "t", "a", ":", " ">>
Sentinel == <<"[", "D", "O", "N", "E", "]">>

\* String.prototype.startsWith
StartsWith(s, p) == Len(s) >= Len(p) /\ SubSeq(s, 1, Len(p)) = p

\* String.prototype.slice(n)
Slice(s, n) == SubSeq(s, n + 1, Len(s))

\* index of the first NL of s, 0 when there is none
RECURSIVE FirstNL(_, _)
FirstNL(s, i) ==
    IF i > Len(s) THEN 0
    ELSE IF s[i] = NL THEN i
    ELSE FirstNL(s, i + 1)

\* String.prototype.split('\n'): "a\n" gives <<"a", "">>, "" gives <<"">>
RECURSIVE Split(_)
Split(s) ==
    LET k == FirstNL(s, 1) IN
    IF k = 0 THEN <<s>>
    ELSE <<SubSeq(s, 1, k - 1)>> \o Split(SubSeq(s, k + 1, Len(s)))

\* JSON whitespace and the digits of the modelled JSON sub-language (numbers)
IsSpace(c) == c \in {" ", "\t", "\r"}
DigitVal(c) == IF c = "1" THEN 1 ELSE IF c = "2" THEN 2 ELSE 0
IsDigit(c) == c \in {"1", "2"}

RECURSIVE StripLeft(_)
StripLeft(s) ==
    IF s # <<>> /\ IsSpace(Head(s)) THEN StripLeft(Tail(s)) ELSE s

RECURSIVE StripRight(_)
StripRight(s) ==
    IF s # <<>> /\ IsSpace(s[Len(s)]) THEN StripRight(SubSeq(s, 1, Len(s) - 1))
    ELSE s

\* String.prototype.trim
Trim(s) == StripRight(StripLeft(s))

\* JSON.parse on the sub-language: optional whitespace around a number made of
\* the digits 1 and 2; anything else is a SyntaxError
JSONParses(data) ==
    LET t == Trim(data) IN
    /\ t # <<>>
    /\ \A i \in 1..Len(t) : IsDigit(t[i])

RECURSIVE DigitsValue(_)
DigitsValue(t) ==
    IF t = <<>> THEN 0
    ELSE 10 * DigitsValue(SubSeq(t, 1, Len(t) - 1)) + DigitVal(t[Len(t)])

JSONValue(data) == DigitsValue(Trim(data))

-----------------------------------------------------------------------------
(* streamMessage *)

OnChunk(v) == [cb |-> "onChunk", arg |-> v]
OnComplete == [cb |-> "onComplete", arg |-> 0]
OnError == [cb |-> "onError", arg |-> 0]

\* ProcessLine with a parse failure treated as fatal: onError and stop
ProcessLineParseErrorFatal(st, line) ==
    IF st.ret THEN st
    ELSE IF StartsWith(line, DataPrefix)
    THEN LET data == Slice(line, 6) IN
         IF data = Sentinel
         THEN [calls |-> Append(st.calls, OnComplete), ret |-> TRUE]
         ELSE IF JSONParses(data)
         THEN [calls |-> Append(st.calls, OnChunk(JSONValue(data))), ret |-> FALSE]
         ELSE [calls |-> Append(st.calls, OnError), ret |-> TRUE]
    ELSE st

\* One iteration of `for (const line of lines)`: st is the loop's state,
\* [calls: the callbacks invoked by this read, ret: `return` was executed].
ProcessLine(st, line) ==
    IF st.ret THEN st
    ELSE IF StartsWith(line, DataPrefix)
    THEN LET data == Slice(line, 6) IN
         IF data = Sentinel
         THEN [calls |-> Append(st.calls, OnComplete), ret |-> TRUE]
         ELSE IF JSONParses(data)
         THEN [calls |-> Append(st.calls, OnChunk(JSONValue(data))), ret |-> FALSE]
         ELSE st
    ELSE st

\* the whole for loop over the lines of one decoded chunk
RECURSIVE ProcessLinesFrom(_, _)
ProcessLinesFrom(st, lines) ==
    IF lines = <<>> THEN st
    ELSE ProcessLinesFrom(ProcessLine(st, Head(lines)), Tail(lines))

ProcessLines(lines) == ProcessLinesFrom([calls |-> <<>>, ret |-> FALSE], lines)

\* fetch(...) rejects: the outer .catch(onError)
FetchReject ==
    /\ sPc = "fetching"
    /\ sPc' = "failed_fetch"
    /\ sCalls' = Append(sCalls, OnError)
    /\ UNCHANGED <<sWire, sPos, sOk>>
    /\ UNCHANGED appVars

\* fetch(...) resolves: the .then callback takes the reader and starts
\* processStream; response.ok is not looked at
FetchResolve(ok) ==
    /\ sPc = "fetching"
    /\ sPc' = "reading"
    /\ sOk' = (IF ok THEN "true" ELSE "false")
    /\ UNCHANGED <<sWire, sPos, sCalls>>
    /\ UNCHANGED appVars

\* reader.read() resolves with done = false and the next n characters
Read(n) ==
    /\ sPc = "reading"
    /\ sPos + n <= Len(sWire)
    /\ LET chunk == SubSeq(sWire, sPos + 1, sPos + n)
           lines == Split(chunk)
           r == ProcessLines(lines)
       IN /\ sCalls' = sCalls \o r.calls
          /\ sPc' = IF r.ret THEN "done_sentinel" ELSE "reading"
    /\ sPos' = sPos + n
    /\ UNCHANGED <<sWire, sOk>>
    /\ UNCHANGED appVars

\* ReadDone leaving the loop without onComplete
ReadDoneNoComplete ==
    /\ sPc = "reading"
    /\ sPos = Len(sWire)
    /\ sCalls' = sCalls
    /\ sPc' = "done_eof"
    /\ UNCHANGED <<sWire, sPos, sOk>>
    /\ UNCHANGED appVars

\* reader.read() resolves with done = true
ReadDone ==
    /\ sPc = "reading"
    /\ sPos = Len(sWire)
    /\ sCalls' = Append(sCalls, OnComplete)
    /\ sPc' = "done_eof"
    /\ UNCHANGED <<sWire, sPos, sOk>>
    /\ UNCHANGED appVars

\* reader.read() rejects: processStream().catch(onError)
ReadError ==
    /\ sPc = "reading"
    /\ sCalls' = Append(sCalls, OnError)
    /\ sPc' = "failed_read"
    /\ UNCHANGED <<sWire, sPos, sOk>>
    /\ UNCHANGED appVars

-----------------------------------------------------------------------------
(* App: session, documents, chat *)

RECURSIVE SumTo(_, _)
SumTo(f, k) == IF k = 0 THEN 0 ELSE f[k] + SumTo(f, k - 1)

\* a drop takes two requests, so at most this many jobs exist
MaxJobs ==
    (IF MaxRequests > MaxDocRequests THEN MaxRequests ELSE MaxDocRequests) \div 2

\* the requests issued or committed so far
Issued ==
    nSends + 2 * nDrops
    + SumTo([j \in 1..MaxJobs |->
                IF polls[j].n > 1 THEN polls[j].n - 1 ELSE 0], MaxJobs)

\* lastOp: the operation or handler that ran last, with its request/response
\* (a record, as every other argument is: TLC compares the values a variable
\* takes, and does not compare a string with a record)
NoArg == [none |-> TRUE]
Op(op, arg) == [op |-> op, arg |-> arg]

InputTexts ==
    { <<>>, <<" ">>, <<" ", "h", " ">>, <<"o">> }

\* the files a user can drop: [name, size]
FileA == [name |-> "a.pdf", size |-> 10]
FileB == [name |-> "b.pdf", size |-> 20]
Batches == { <<FileA>>, <<FileA, FileB>>, <<FileA, FileA>> }

Jobs == 1..MaxJobs
JobStatuses == {"processing", "completed", "failed"}
DocStatuses == {"processing", "completed", "failed"}

\* chat responses: {answer, references}
Answers ==
    { [answer |-> "A1", references |-> <<>>],
      [answer |-> "A2",
       references |-> <<[document_name |-> "a.pdf", page_number |-> 3]>>] }

\* the state after the first render and the mount effect (part_000 26-41):
\* createSession's request is in flight
AppStart ==
    /\ sessionId = "null"
    /\ documents = <<>>
    /\ messages = <<>>
    /\ inputMessage = <<>>
    /\ isLoading = FALSE
    /\ processingStatus = "null"
    /\ error = "null"
    /\ sessionReq = "pending"
    /\ chatReqs = {}
    /\ uploads = {}
    /\ polls = [j \in Jobs |-> [pc |-> "idle", n |-> 0]]
    /\ jobDocs = [j \in Jobs |-> <<>>]
    /\ nSends = 0
    /\ nDrops = 0
    /\ nDocs = 0
    /\ now = 0
    /\ lastOp = Op("mount", NoArg)

\* Array.prototype.find: the index of the first element of s whose field
\* `field` equals v, 0 if there is none
RECURSIVE FindFrom(_, _, _, _)
FindFrom(s, field, v, i) ==
    IF i > Len(s) THEN 0
    ELSE IF s[i][field] = v THEN i
    ELSE FindFrom(s, field, v, i + 1)

Find(s, field, v) == FindFrom(s, field, v, 1)

\* createSession resolves (part_000 58-59)
CreateSessionOk ==
    /\ sessionReq = "pending"
    /\ sessionReq' = "settled"
    /\ sessionId' = "s1"
    /\ lastOp' = Op("createSession:ok", NoArg)
    /\ UNCHANGED <<documents, messages, inputMessage, isLoading, processingStatus,
                   error, chatReqs, uploads, polls, jobDocs, nSends, nDrops,
                   nDocs, now>>

\* createSession rejects (part_000 60-62)
CreateSessionFail ==
    /\ sessionReq = "pending"
    /\ sessionReq' = "settled"
    /\ error' = "Error al conectar con el servidor"
    /\ lastOp' = Op("createSession:fail", NoArg)
    /\ UNCHANGED <<sessionId, documents, messages, inputMessage, isLoading,
                   processingStatus, chatReqs, uploads, polls, jobDocs, nSends,
                   nDrops, nDocs, now>>

\* the user edits the text area or clicks a suggestion (part_000 284, 348)
SetInputMessage(text) ==
    /\ inputMessage # text
    /\ inputMessage' = text
    /\ lastOp' = Op("setInputMessage", NoArg)
    /\ UNCHANGED <<sessionId, documents, messages, isLoading, processingStatus,
                   error, sessionReq, chatReqs, uploads, polls, jobDocs, nSends,
                   nDrops, nDocs, now>>

\* the guard of sendMessage without its isLoading test
SendRejectedNoLoading ==
    \/ Trim(inputMessage) = <<>>
    \/ sessionId = "null"

\* the guard of sendMessage (part_000 128): TRUE when the call returns at once
SendRejected ==
    \/ Trim(inputMessage) = <<>>
    \/ sessionId = "null"
    \/ isLoading

\* sendMessage without setIsLoading(true)
SendMessageNoLoadingFlag ==
    IF SendRejected
    THEN /\ lastOp' = Op("sendMessage:return", NoArg)
         /\ UNCHANGED <<sessionId, documents, messages, inputMessage, isLoading,
                        processingStatus, error, sessionReq, chatReqs, uploads,
                        polls, jobDocs, nSends, nDrops, nDocs, now>>
    ELSE /\ Issued + 1 <= limit
         /\ LET userMessage == Trim(inputMessage) IN
            /\ inputMessage' = <<>>
            /\ messages' = Append(messages, [role |-> "user", content |-> userMessage])
            /\ isLoading' = isLoading
            /\ error' = "null"
            /\ nSends' = nSends + 1
            /\ chatReqs' = chatReqs \cup
                   {[n |-> nSends + 1, session_id |-> sessionId, message |-> userMessage]}
         /\ lastOp' = Op("sendMessage:sent", NoArg)
         /\ UNCHANGED <<sessionId, documents, processingStatus, sessionReq, uploads,
                        polls, jobDocs, nDrops, nDocs, now>>

\* sendMessage without the append of the user message
SendMessageNoUserMessage ==
    IF SendRejected
    THEN /\ lastOp' = Op("sendMessage:return", NoArg)
         /\ UNCHANGED <<sessionId, documents, messages, inputMessage, isLoading,
                        processingStatus, error, sessionReq, chatReqs, uploads,
                        polls, jobDocs, nSends, nDrops, nDocs, now>>
    ELSE /\ Issued + 1 <= limit
         /\ LET userMessage == Trim(inputMessage) IN
            /\ inputMessage' = <<>>
            /\ messages' = messages
            /\ isLoading' = TRUE
            /\ error' = "null"
            /\ nSends' = nSends + 1
            /\ chatReqs' = chatReqs \cup
                   {[n |-> nSends + 1, session_id |-> sessionId, message |-> userMessage]}
         /\ lastOp' = Op("sendMessage:sent", NoArg)
         /\ UNCHANGED <<sessionId, documents, processingStatus, sessionReq, uploads,
                        polls, jobDocs, nDrops, nDocs, now>>

\* sendMessage up to its await (part_000 127-137). The guard reads the state of
\* the latest render: React re-renders between two discrete input events.
SendMessage ==
    IF SendRejected
    THEN /\ lastOp' = Op("sendMessage:return", NoArg)
         /\ UNCHANGED <<sessionId, documents, messages, inputMessage, isLoading,
                        processingStatus, error, sessionReq, chatReqs, uploads,
                        polls, jobDocs, nSends, nDrops, nDocs, now>>
    ELSE /\ Issued + 1 <= limit
         /\ LET userMessage == Trim(inputMessage) IN
            /\ inputMessage' = <<>>
            /\ messages' = Append(messages, [role |-> "user", content |-> userMessage])
            /\ isLoading' = TRUE
            /\ error' = "null"
            /\ nSends' = nSends + 1
            /\ chatReqs' = chatReqs \cup
                   {[n |-> nSends + 1, session_id |-> sessionId, message |-> userMessage]}
         /\ lastOp' = Op("sendMessage:sent", NoArg)
         /\ UNCHANGED <<sessionId, documents, processingStatus, sessionReq, uploads,
                        polls, jobDocs, nDrops, nDocs, now>>

\* ChatResponse losing the response's references
ChatResponseNoReferences(req, response) ==
    /\ req \in chatReqs
    /\ chatReqs' = chatReqs \ {req}
    /\ messages' = Append(messages, [role |-> "assistant",
                                     content |-> response.answer,
                                     references |-> <<>>])
    /\ isLoading' = FALSE
    /\ lastOp' = Op("sendMessage:ok", [request |-> req, response |-> response])
    /\ UNCHANGED <<sessionId, documents, inputMessage, processingStatus, error,
                   sessionReq, uploads, polls, jobDocs, nSends, nDrops, nDocs, now>>

\* ChatResponse putting the answer in the place of the last message
ChatResponseReplacesLast(req, response) ==
    /\ req \in chatReqs
    /\ chatReqs' = chatReqs \ {req}
    /\ messages' = Append(SubSeq(messages, 1, Len(messages) - 1),
                          [role |-> "assistant",
                           content |-> response.answer,
                           references |-> response.references])
    /\ isLoading' = FALSE
    /\ lastOp' = Op("sendMessage:ok", [request |-> req, response |-> response])
    /\ UNCHANGED <<sessionId, documents, inputMessage, processingStatus, error,
                   sessionReq, uploads, polls, jobDocs, nSends, nDrops, nDocs, now>>

\* the chat request resolves (part_000 137-142, 145-147)
ChatResponse(req, response) ==
    /\ req \in chatReqs
    /\ chatReqs' = chatReqs \ {req}
    /\ messages' = Append(messages, [role |-> "assistant",
                                     content |-> response.answer,
                                     references |-> response.references])
    /\ isLoading' = FALSE
    /\ lastOp' = Op("sendMessage:ok", [request |-> req, response |-> response])
    /\ UNCHANGED <<sessionId, documents, inputMessage, processingStatus, error,
                   sessionReq, uploads, polls, jobDocs, nSends, nDrops, nDocs, now>>

\* ChatFailure rolling the optimistic user message back
ChatFailureRollback(req) ==
    /\ req \in chatReqs
    /\ chatReqs' = chatReqs \ {req}
    /\ messages' = SubSeq(messages, 1, Len(messages) - 1)
    /\ error' = "Error al obtener respuesta"
    /\ isLoading' = FALSE
    /\ lastOp' = Op("sendMessage:fail", [request |-> req])
    /\ UNCHANGED <<sessionId, documents, inputMessage, processingStatus,
                   sessionReq, uploads, polls, jobDocs, nSends, nDrops, nDocs, now>>

\* ChatFailure with setIsLoading(false) on the success path only
ChatFailureKeepsLoading(req) ==
    /\ req \in chatReqs
    /\ chatReqs' = chatReqs \ {req}
    /\ error' = "Error al obtener respuesta"
    /\ lastOp' = Op("sendMessage:fail", [request |-> req])
    /\ UNCHANGED <<sessionId, documents, messages, inputMessage, isLoading,
                   processingStatus, sessionReq, uploads, polls, jobDocs, nSends,
                   nDrops, nDocs, now>>

\* the chat request rejects (part_000 143-147)
ChatFailure(req) ==
    /\ req \in chatReqs
    /\ chatReqs' = chatReqs \ {req}
    /\ error' = "Error al obtener respuesta"
    /\ isLoading' = FALSE
    /\ lastOp' = Op("sendMessage:fail", [request |-> req])
    /\ UNCHANGED <<sessionId, documents, messages, inputMessage, processingStatus,
                   sessionReq, uploads, polls, jobDocs, nSends, nDrops, nDocs, now>>

\* the error banner's close button (part_000 336)
DismissError ==
    /\ error # "null"
    /\ error' = "null"
    /\ lastOp' = Op("dismissError", NoArg)
    /\ UNCHANGED <<sessionId, documents, messages, inputMessage, isLoading,
                   processingStatus, sessionReq, chatReqs, uploads, polls, jobDocs,
                   nSends, nDrops, nDocs, now>>

\* the temporary id of part_000 70, `temp - ${Date.now()} -${file.name} `
TempId(t, name) == <<"temp", t, name>>

\* acceptedFiles.map(...) of part_000 69-74. `key` is not a field of the
\* program's objects: it names the drop that created the object and its place
\* in the drop, so that properties can follow one document through the list.
NewDocs(files, t, drop) ==
    [i \in 1..Len(files) |->
        [id |-> TempId(t, files[i].name), filename |-> files[i].name,
         size |-> files[i].size, status |-> "pending", key |-> <<drop, i>>]]

\* onDrop without its session check
OnDropNoSessionCheck(files, t) ==
    /\ Issued + 2 <= limit
    /\ t \in (IF nDrops = 0 THEN {now} ELSE {now, now + 1})
    /\ now' = t
    /\ documents' = documents \o NewDocs(files, t, nDrops + 1)
    /\ nDrops' = nDrops + 1
    /\ uploads' = uploads \cup
           {[n |-> nDrops + 1, session_id |-> sessionId,
             files |-> [k \in 1..Len(files) |-> files[k].name]]}
    /\ lastOp' = Op("onDrop:sent", NoArg)
    /\ UNCHANGED <<sessionId, messages, inputMessage, isLoading,
                   processingStatus, error, sessionReq, chatReqs, polls,
                   jobDocs, nSends, nDocs>>

\* onDrop up to its await (part_000 66-78); t is Date.now(), the millisecond of
\* the previous drop or a later one
OnDrop(files, t) ==
    IF sessionId = "null"
    THEN /\ lastOp' = Op("onDrop:return", NoArg)
         /\ UNCHANGED <<sessionId, documents, messages, inputMessage, isLoading,
                        processingStatus, error, sessionReq, chatReqs, uploads,
                        polls, jobDocs, nSends, nDrops, nDocs, now>>
    ELSE /\ Issued + 2 <= limit
         /\ t \in (IF nDrops = 0 THEN {now} ELSE {now, now + 1})
         /\ now' = t
         /\ documents' = documents \o NewDocs(files, t, nDrops + 1)
         /\ nDrops' = nDrops + 1
         /\ uploads' = uploads \cup
                {[n |-> nDrops + 1, session_id |-> sessionId,
                  files |-> [i \in 1..Len(files) |-> files[i].name]]}
         /\ lastOp' = Op("onDrop:sent", NoArg)
         /\ UNCHANGED <<sessionId, messages, inputMessage, isLoading,
                        processingStatus, error, sessionReq, chatReqs, polls,
                        jobDocs, nSends, nDocs>>

\* the server's upload response {job_id, documents: [{filename, document_id}]}
\* (the backend is not part of the sources; its REST contract is):
\* a fresh job id and a fresh document id for each file, in upload order
UploadResult(req, firstDoc) ==
    [job_id |-> req.n,
     documents |-> [i \in 1..Len(req.files) |->
                       [filename |-> req.files[i],
                        document_id |-> <<"doc", firstDoc + i>>]]]

\* ReconcileUpload moving the documents it does not match to processing as well
ReconcileUploadEveryDocument(prev, response) ==
    [i \in 1..Len(prev) |->
        LET doc == prev[i]
            k == Find(response.documents, "filename", doc.filename)
        IN IF k # 0
           THEN [doc EXCEPT !.id = response.documents[k].document_id,
                            !.status = "processing"]
           ELSE [doc EXCEPT !.status = "processing"]]

\* the reconciliation of part_000 80-86
ReconcileUpload(prev, response) ==
    [i \in 1..Len(prev) |->
        LET doc == prev[i]
            k == Find(response.documents, "filename", doc.filename)
        IN IF k # 0
           THEN [doc EXCEPT !.id = response.documents[k].document_id,
                            !.status = "processing"]
           ELSE doc]

\* the upload resolves (part_000 78-88): reconcile, then pollProcessingStatus
\* issues the job's first status request
UploadResponse(req) ==
    /\ req \in uploads
    /\ uploads' = uploads \ {req}
    /\ LET response == UploadResult(req, nDocs) IN
       /\ documents' = ReconcileUpload(documents, response)
       /\ jobDocs' = [jobDocs EXCEPT ![response.job_id] =
                         [i \in 1..Len(response.documents) |->
                             [document_id |-> response.documents[i].document_id,
                              status |-> "processing"]]]
       /\ polls' = [polls EXCEPT ![response.job_id] = [pc |-> "request", n |-> 1]]
    /\ nDocs' = nDocs + Len(req.files)
    /\ lastOp' = Op("onDrop:ok", [response |-> UploadResult(req, nDocs)])
    /\ UNCHANGED <<sessionId, messages, inputMessage, isLoading, processingStatus,
                   error, sessionReq, chatReqs, nSends, nDrops, now>>

\* the upload rejects (part_000 89-91)
UploadFailure(req) ==
    /\ req \in uploads
    /\ uploads' = uploads \ {req}
    /\ error' = "Error al subir documentos"
    /\ lastOp' = Op("onDrop:fail", [drop |-> req.n])
    /\ UNCHANGED <<sessionId, documents, messages, inputMessage, isLoading,
                   processingStatus, sessionReq, chatReqs, polls, jobDocs, nSends,
                   nDrops, nDocs, now>>

\* the server's status response {status, documents: [{document_id, status}]}
StatusResult(j, status, docStatus) ==
    [status |-> status,
     documents |-> [i \in 1..Len(jobDocs[j]) |->
                       [document_id |-> jobDocs[j][i].document_id,
                        status |-> docStatus[i]]]]

TerminalStatuses == {"completed", "failed"}

\* the statuses the server can report for a document it last reported as s:
\* processing goes on to completed or failed, and a terminal status stays
ServerNext(s) == IF s \in TerminalStatuses THEN {s} ELSE DocStatuses

\* the status responses the server can give for job j: every document moves
\* along processing -> completed | failed, and the job's status is terminal
\* only when every document's is
StatusResults(j) ==
    LET n == Len(jobDocs[j])
        docStatuses(s) ==
            { f \in [1..n -> DocStatuses] :
                /\ \A i \in 1..n : f[i] \in ServerNext(jobDocs[j][i].status)
                /\ s \in TerminalStatuses => \A i \in 1..n : f[i] \in TerminalStatuses }
    IN UNION { { StatusResult(j, s, ds) : ds \in docStatuses(s) } : s \in JobStatuses }

\* MergeStatus giving the first reported status to the documents the response
\* does not name
MergeStatusEveryDocument(prev, status) ==
    [i \in 1..Len(prev) |->
        LET doc == prev[i]
            k == Find(status.documents, "document_id", doc.id)
        IN IF k # 0 THEN [doc EXCEPT !.status = status.documents[k].status]
           ELSE IF status.documents # <<>>
                THEN [doc EXCEPT !.status = status.documents[1].status]
                ELSE doc]

\* MergeStatus putting back into the list the documents of the response that
\* the list does not hold
MergeStatusAddsMissing(prev, status) ==
    [i \in 1..Len(prev) |->
        LET doc == prev[i]
            k == Find(status.documents, "document_id", doc.id)
        IN IF k # 0 THEN [doc EXCEPT !.status = status.documents[k].status]
           ELSE doc]
    \o [k \in 1..Len(SelectSeq(status.documents,
                                LAMBDA d : Find(prev, "id", d.document_id) = 0)) |->
          LET d == SelectSeq(status.documents,
                             LAMBDA e : Find(prev, "id", e.document_id) = 0)[k]
          IN [id |-> d.document_id, filename |-> FileA.name, size |-> FileA.size,
              status |-> d.status, key |-> <<0, d.document_id[2]>>]]

\* the merge of part_000 100-106
MergeStatus(prev, status) ==
    [i \in 1..Len(prev) |->
        LET doc == prev[i]
            k == Find(status.documents, "document_id", doc.id)
        IN IF k # 0 THEN [doc EXCEPT !.status = status.documents[k].status]
           ELSE doc]

\* PollAgain never scheduling the next poll
PollAgainNever(status) == status.status = "rescheduled"

\* PollAgain stopping only on `completed`
PollAgainUnlessCompleted(status) == status.status # "completed"

\* part_000 108: the loop goes on unless the job's status is terminal
PollAgain(status) == status.status # "completed" /\ status.status # "failed"

\* a status request resolves (part_000 97-112)
PollResponse(j, status) ==
    /\ polls[j].pc = "request"
    /\ documents' = MergeStatus(documents, status)
    /\ IF PollAgain(status)
       THEN /\ processingStatus' = status.status
            /\ polls' = [polls EXCEPT ![j].pc = "timer"]
       ELSE /\ processingStatus' = "null"
            /\ polls' = [polls EXCEPT ![j].pc = "done"]
    /\ jobDocs' = [jobDocs EXCEPT ![j] = status.documents]
    /\ lastOp' = Op("poll:ok", [job |-> j, response |-> status])
    /\ UNCHANGED <<sessionId, messages, inputMessage, isLoading, error, sessionReq,
                   chatReqs, uploads, nSends, nDrops, nDocs, now>>

\* the 2000 ms timer fires: poll() issues the next status request (part_000 109, 97)
PollTimer(j) ==
    /\ polls[j].pc = "timer"
    /\ Issued + 1 <= limit
    /\ polls' = [polls EXCEPT ![j] = [pc |-> "request", n |-> polls[j].n + 1]]
    /\ lastOp' = Op("poll:timer", [job |-> j])
    /\ UNCHANGED <<sessionId, documents, messages, inputMessage, isLoading,
                   processingStatus, error, sessionReq, chatReqs, uploads, jobDocs,
                   nSends, nDrops, nDocs, now>>

\* a status request rejects (part_000 113-115): logged, nothing rescheduled
PollFailure(j) ==
    /\ polls[j].pc = "request"
    /\ polls' = [polls EXCEPT ![j].pc = "error"]
    /\ lastOp' = Op("poll:fail", [job |-> j])
    /\ UNCHANGED <<sessionId, documents, messages, inputMessage, isLoading,
                   processingStatus, error, sessionReq, chatReqs, uploads, jobDocs,
                   nSends, nDrops, nDocs, now>>

DocIds == { documents[i].id : i \in 1..Len(documents) }

\* deleteDocument (part_000 158-160)
DeleteDocument(docId) ==
    /\ docId \in DocIds
    /\ documents' = SelectSeq(documents, LAMBDA d : d.id # docId)
    /\ lastOp' = Op("deleteDocument", [id |-> docId])
    /\ UNCHANGED <<sessionId, messages, inputMessage, isLoading, processingStatus,
                   error, sessionReq, chatReqs, uploads, polls, jobDocs, nSends,
                   nDrops, nDocs, now>>

-----------------------------------------------------------------------------
(* ApiService.request and ApiService.uploadDocuments: the settling of one call *)

\* JavaScript values, as far as `error.detail || generic` tells them apart
Undefined == [type |-> "undefined", text |-> "", len |-> 0]
JsNull == [type |-> "null", text |-> "", len |-> 0]
JsString(t) == [type |-> "string", text |-> t, len |-> 0]
\* an array of n plain objects, FastAPI's `detail` of a validation error
JsObjects(n) == [type |-> "array", text |-> "", len |-> n]

\* what response.json() can parse to: null, or an object with or without `detail`
JsonNull == [type |-> "null", detail |-> Undefined]
JsonObject(detail) == [type |-> "object", detail |-> detail]
EmptyObject == JsonObject(Undefined)

\* ToBoolean
Truthy(v) ==
    CASE v.type = "undefined" -> FALSE
      [] v.type = "null" -> FALSE
      [] v.type = "string" -> v.text # ""
      [] v.type = "array" -> TRUE

\* Array.prototype.join over n plain objects
RECURSIVE JoinObjects(_)
JoinObjects(n) ==
    IF n = 0 THEN ""
    ELSE IF n = 1 THEN "[object Object]"
    ELSE JoinObjects(n - 1) \o ",[object Object]"

\* ToString, which new Error(message) applies to its argument
ToJsString(v) ==
    CASE v.type = "string" -> v.text
      [] v.type = "array" -> JoinObjects(v.len)
      [] v.type = "null" -> "null"
      [] v.type = "undefined" -> "undefined"

\* response.ok
Ok(status) == status >= 200 /\ status <= 299

\* `await response.json().catch(() => ({}))` (api.js 28, 80)
ErrorBody(body) == IF body.kind = "json" THEN body.value ELSE EmptyObject

Returned == [kind |-> "return", name |-> "", message |-> ""]
Threw(name, message) == [kind |-> "throw", name |-> name, message |-> message]

\* `throw new Error(error.detail || generic)` (api.js 29, 81); reading
\* `detail` of null is a TypeError
ThrowFor(body, generic) ==
    LET parsed == ErrorBody(body) IN
    IF parsed.type = "null"
    THEN Threw("TypeError", "Cannot read properties of null (reading 'detail')")
    ELSE Threw("Error", IF Truthy(parsed.detail) THEN ToJsString(parsed.detail)
                        ELSE generic)

\* `return response.json()` (api.js 32, 84)
ReturnJson(body) ==
    IF body.kind = "json" THEN Returned
    ELSE Threw("SyntaxError", "Unexpected end of JSON input")

\* `HTTP error ${response.status}` (api.js 29)
HttpErrorMessage(status) == "HTTP error " \o ToString(status)

HttpStart ==
    /\ httpCall = [method |-> "none", status |-> 0,
                   body |-> [kind |-> "none", value |-> EmptyObject]]
    /\ httpOutcome = Returned

\* request(endpoint, options) once fetch has resolved (api.js 24-36); the
\* catch logs the error and throws it again
Request(status, body) ==
    /\ httpCall' = [method |-> "request", status |-> status, body |-> body]
    /\ httpOutcome' = IF Ok(status) THEN ReturnJson(body)
                      ELSE ThrowFor(body, HttpErrorMessage(status))
    /\ UNCHANGED <<streamVars, appVars>>

\* uploadDocuments(sessionId, files) once fetch has resolved (api.js 73-84)
UploadDocuments(status, body) ==
    /\ httpCall' = [method |-> "uploadDocuments", status |-> status, body |-> body]
    /\ httpOutcome' = IF Ok(status) THEN ReturnJson(body)
                      ELSE ThrowFor(body, "Upload failed")
    /\ UNCHANGED <<streamVars, appVars>>

-----------------------------------------------------------------------------
(* Specifications *)

\* response bodies: up to MaxLines lines, the last one with or without its NL.
\* The bytes are ASCII, so TextDecoder.decode maps them one to one.
LineKinds ==
    { DataPrefix \o <<"1">>,
      DataPrefix \o <<"1", "2">>,
      DataPrefix \o <<"2", "x">>,
      DataPrefix \o Sentinel,
      <<>> }

RECURSIVE Join(_)
Join(ls) == IF ls = <<>> THEN <<>> ELSE Head(ls) \o <<NL>> \o Join(Tail(ls))

Wires ==
    LET full == { Join(ls) : ls \in UNION { [1..k -> LineKinds] : k \in 0..MaxLines } }
    IN full \cup { SubSeq(w, 1, Len(w) - 1) : w \in full \ {<<>>} }

StreamInit ==
    /\ sWire \in Wires
    /\ sPos = 0
    /\ sPc = "fetching"
    /\ sOk = "none"
    /\ sCalls = <<>>
    /\ AppStart
    /\ limit = MaxRequests
    /\ HttpStart

StreamNext ==
    \/ FetchReject /\ UNCHANGED httpVars
    \/ \E ok \in BOOLEAN : FetchResolve(ok) /\ UNCHANGED httpVars
    \/ \E n \in 1..Len(sWire) : Read(n) /\ UNCHANGED httpVars
    \/ ReadDone /\ UNCHANGED httpVars
    \/ ReadError /\ UNCHANGED httpVars

StreamSpec == StreamInit /\ [][StreamNext]_vars

Init ==
    /\ sWire = <<>>
    /\ sPos = 0
    /\ sPc = "fetching"
    /\ sOk = "none"
    /\ sCalls = <<>>
    /\ AppStart
    /\ limit = MaxRequests
    /\ HttpStart

\* what no operation of the App component touches
otherVars == <<streamVars, limit, httpVars>>

Next ==
    \/ CreateSessionOk /\ UNCHANGED otherVars
    \/ CreateSessionFail /\ UNCHANGED otherVars
    \/ \E text \in InputTexts : SetInputMessage(text) /\ UNCHANGED otherVars
    \/ SendMessage /\ UNCHANGED otherVars
    \/ \E req \in chatReqs, response \in Answers :
           ChatResponse(req, response) /\ UNCHANGED otherVars
    \/ \E req \in chatReqs : ChatFailure(req) /\ UNCHANGED otherVars
    \/ DismissError /\ UNCHANGED otherVars
    \/ \E files \in Batches, t \in {now, now + 1} :
           OnDrop(files, t) /\ UNCHANGED otherVars
    \/ \E req \in uploads : UploadResponse(req) /\ UNCHANGED otherVars
    \/ \E req \in uploads : UploadFailure(req) /\ UNCHANGED otherVars
    \/ \E j \in Jobs : \E status \in StatusResults(j) :
           PollResponse(j, status) /\ UNCHANGED otherVars
    \/ \E j \in Jobs : PollTimer(j) /\ UNCHANGED otherVars
    \/ \E j \in Jobs : PollFailure(j) /\ UNCHANGED otherVars
    \/ \E docId \in DocIds : DeleteDocument(docId) /\ UNCHANGED otherVars

Spec == Init /\ [][Next]_vars

\* the document operations alone, with room for two drops
DocInit ==
    /\ sWire = <<>>
    /\ sPos = 0
    /\ sPc = "fetching"
    /\ sOk = "none"
    /\ sCalls = <<>>
    /\ AppStart
    /\ limit = MaxDocRequests
    /\ HttpStart

DocNext ==
    \/ CreateSessionOk /\ UNCHANGED otherVars
    \/ CreateSessionFail /\ UNCHANGED otherVars
    \/ DismissError /\ UNCHANGED otherVars
    \/ \E files \in Batches, t \in {now, now + 1} :
           OnDrop(files, t) /\ UNCHANGED otherVars
    \/ \E req \in uploads : UploadResponse(req) /\ UNCHANGED otherVars
    \/ \E req \in uploads : UploadFailure(req) /\ UNCHANGED otherVars
    \/ \E j \in Jobs : \E status \in StatusResults(j) :
           PollResponse(j, status) /\ UNCHANGED otherVars
    \/ \E j \in Jobs : PollTimer(j) /\ UNCHANGED otherVars
    \/ \E j \in Jobs : PollFailure(j) /\ UNCHANGED otherVars
    \/ \E docId \in DocIds : DeleteDocument(docId) /\ UNCHANGED otherVars

DocSpec == DocInit /\ [][DocNext]_vars

\* drops and their polling loops alone; a timer that setTimeout has armed
\* (part_000 109) fires
PollNext ==
    \/ CreateSessionOk /\ UNCHANGED otherVars
    \/ \E files \in Batches, t \in {now, now + 1} :
           OnDrop(files, t) /\ UNCHANGED otherVars
    \/ \E req \in uploads : UploadResponse(req) /\ UNCHANGED otherVars
    \/ \E j \in Jobs : \E status \in StatusResults(j) :
           PollResponse(j, status) /\ UNCHANGED otherVars
    \/ \E j \in Jobs : PollTimer(j) /\ UNCHANGED otherVars
    \/ \E j \in Jobs : PollFailure(j) /\ UNCHANGED otherVars

PollSpec ==
    /\ DocInit
    /\ [][PollNext]_vars
    /\ \A j \in Jobs : WF_polls(PollTimer(j) /\ UNCHANGED otherVars)

\* the responses a call can get
Statuses == {200, 400, 404, 422, 500, 503}

Details ==
    { Undefined, JsNull, JsString(""), JsString("Session not found"),
      JsString("File too large"), JsObjects(1) }

Bodies ==
    { [kind |-> "none", value |-> EmptyObject],
      [kind |-> "invalid", value |-> EmptyObject],
      [kind |-> "json", value |-> JsonNull] }
    \cup { [kind |-> "json", value |-> JsonObject(d)] : d \in Details }

HttpInit ==
    /\ sWire = <<>>
    /\ sPos = 0
    /\ sPc = "fetching"
    /\ sOk = "none"
    /\ sCalls = <<>>
    /\ AppStart
    /\ limit = 0
    /\ HttpStart

HttpNext ==
    \/ \E status \in Statuses, body \in Bodies : Request(status, body)
    \/ \E status \in Statuses, body \in Bodies : UploadDocuments(status, body)

HttpSpec == HttpInit /\ [][HttpNext]_vars


-----------------------------------------------------------------------------
(* Properties of streamMessage, checked under StreamSpec *)

Count(calls, cb) == Cardinality({ i \in 1..Len(calls) : calls[i].cb = cb })

\* the payloads handed to onChunk, in order
Chunks(calls) ==
    LET c == SelectSeq(calls, LAMBDA x : x.cb = "onChunk")
    IN [i \in 1..Len(c) |-> c[i].arg]

StreamEnded == sPc \in {"done_sentinel", "done_eof"}

IsSentinelLine(line) == line = DataPrefix \o Sentinel

\* a `data: ` line whose payload is JSON
IsFrame(line) ==
    /\ StartsWith(line, DataPrefix)
    /\ ~IsSentinelLine(line)
    /\ JSONParses(Slice(line, 6))

\* a `data: ` line whose payload is neither the sentinel nor JSON
IsMalformedFrame(line) ==
    /\ StartsWith(line, DataPrefix)
    /\ ~IsSentinelLine(line)
    /\ ~JSONParses(Slice(line, 6))

\* the lines of the body as the server wrote them
WireLines == Split(sWire)

\* index of the first sentinel line of a sequence of lines, 0 if none
RECURSIVE FirstSentinelFrom(_, _)
FirstSentinelFrom(lines, i) ==
    IF i > Len(lines) THEN 0
    ELSE IF IsSentinelLine(lines[i]) THEN i
    ELSE FirstSentinelFrom(lines, i + 1)

FirstSentinel(lines) == FirstSentinelFrom(lines, 1)

\* the callbacks a sequence of complete lines calls for: one onChunk per
\* well-formed frame before the sentinel, then onComplete if there is a sentinel
Delivery(lines) ==
    LET k == FirstSentinel(lines)
        before == IF k = 0 THEN lines ELSE SubSeq(lines, 1, k - 1)
        frames == SelectSeq(before, IsFrame)
    IN [i \in 1..Len(frames) |-> OnChunk(JSONValue(Slice(frames[i], 6)))]
       \o (IF k = 0 THEN <<>> ELSE <<OnComplete>>)

\* the body is well-formed frames followed by the sentinel (and then anything)
FramesThenDone ==
    LET k == FirstSentinel(WireLines) IN
    /\ k > 1
    /\ \A i \in 1..(k - 1) : IsFrame(WireLines[i])

\* C1: when the body is well-formed frames followed by the [DONE] sentinel, the
\* call ends having invoked onChunk once per frame before the sentinel, in wire
\* order, then onComplete once, and nothing for what follows the sentinel.
C1_FramesInOrderThenComplete ==
    (sOk = "true" /\ FramesThenDone /\ StreamEnded) => sCalls = Delivery(WireLines)

\* C2: a call that met a transport failure (fetch rejected, initial response
\* not OK, or a read rejected) has invoked onError exactly once, as its last
\* callback.
TransportFailure ==
    \/ sPc \in {"failed_fetch", "failed_read"}
    \/ StreamEnded /\ sOk = "false"

C2_TransportFailureOneError ==
    TransportFailure =>
        /\ Count(sCalls, "onError") = 1
        /\ sCalls[Len(sCalls)] = OnError

\* C3: in every read, the callbacks invoked are exactly those of the read's
\* well-formed frames up to the sentinel: a `data: ` line whose payload is not
\* the sentinel and is not JSON invokes neither onChunk nor onError, and the
\* lines after it are processed as if it were not there.
C3_MalformedFrameSkipped ==
    [][ sPos' > sPos =>
          LET lines == Split(SubSeq(sWire, sPos + 1, sPos'))
              emitted == SubSeq(sCalls', Len(sCalls) + 1, Len(sCalls'))
          IN /\ emitted = Delivery(lines)
             /\ emitted = Delivery(SelectSeq(lines, LAMBDA l : ~IsMalformedFrame(l)))
             /\ (FirstSentinel(lines) = 0 => sPc' = "reading") ]_vars

\* a body whose first line is malformed and whose second is the frame 1, read
\* to its end with exactly that frame delivered
C3_Witness ==
    /\ Len(WireLines) >= 2
    /\ IsMalformedFrame(WireLines[1])
    /\ WireLines[2] = DataPrefix \o <<"1">>
    /\ sPos = Len(sWire)
    /\ sPc = "reading"
    /\ sCalls # <<>>
    /\ sCalls[1] = OnChunk(1)

\* C4: the payloads delivered to onChunk depend only on the body's content,
\* not on how reader.read() cuts it: they are those of the body's lines.
C4_PartitionIndependent ==
    (sOk = "true" /\ StreamEnded) => Chunks(sCalls) = Chunks(Delivery(WireLines))

\* C5: a call that ends at end-of-stream (no sentinel seen, no read error) has
\* invoked onComplete exactly once, last, and never onError.
C5_EndOfStreamCompletes ==
    sPc = "done_eof" =>
        /\ Count(sCalls, "onComplete") = 1
        /\ sCalls[Len(sCalls)] = OnComplete
        /\ Count(sCalls, "onError") = 0

\* end-of-stream reached after a frame was delivered, with no sentinel in the body
C5_Witness ==
    /\ sPc = "done_eof"
    /\ FirstSentinel(WireLines) = 0
    /\ Count(sCalls, "onChunk") >= 1

-----------------------------------------------------------------------------
(* Properties of the App, checked under Spec *)

\* empty or whitespace-only text
Blank(text) == \A i \in 1..Len(text) : IsSpace(text[i])

UserMessage(content) == [role |-> "user", content |-> content]

AssistantMessage(response) ==
    [role |-> "assistant", content |-> response.answer,
     references |-> response.references]

SendInvoked == lastOp'.op \in {"sendMessage:return", "sendMessage:sent"}

\* C6: a sendMessage call made while the input is empty or whitespace-only, or
\* no session exists, or a send is in flight issues no chat request and leaves
\* the history, the loading flag and the error state as they were.
C6_RejectedSendIsNoOp ==
    [][ (SendInvoked /\ (Blank(inputMessage) \/ sessionId = "null" \/ isLoading))
          => /\ chatReqs' = chatReqs
             /\ messages' = messages
             /\ isLoading' = isLoading
             /\ error' = error ]_vars

\* sendMessage returned at once because a send was in flight, with a session
\* and a non-blank input
C6_Witness ==
    /\ lastOp.op = "sendMessage:return"
    /\ isLoading
    /\ sessionId # "null"
    /\ ~Blank(inputMessage)
    /\ error # "null"

\* the step of an accepted send: the user message with the given content is
\* appended in the step that issues the chat request for it
SendAppends(content) ==
    lastOp'.op = "sendMessage:sent" =>
        /\ messages' = Append(messages, UserMessage(content))
        /\ \E req \in chatReqs' \ chatReqs :
              req.message = messages'[Len(messages')].content

\* the step that applies a chat response: the history ended with the request's
\* user message and gains the assistant message of the response
AnswerFollows ==
    lastOp'.op = "sendMessage:ok" =>
        /\ messages # <<>>
        /\ messages[Len(messages)] = UserMessage(lastOp'.arg.request.message)
        /\ messages' = Append(messages, AssistantMessage(lastOp'.arg.response))

\* C7 as stated: the user message of an accepted sendMessage(text) carries
\* `text` itself.
C7_Original == [][SendAppends(inputMessage) /\ AnswerFollows]_vars

\* C7, amended: an accepted sendMessage appends the user message, whose content
\* is the input text without its leading and trailing whitespace, in the step
\* that issues the chat request; and when the response is applied the history
\* ends with that user message immediately followed by the assistant message
\* carrying the response's answer and references.
C7_UserThenAssistant == [][SendAppends(Trim(inputMessage)) /\ AnswerFollows]_vars

\* a response with references applied after a drop, for a text typed with
\* surrounding whitespace
C7_Witness ==
    /\ lastOp.op = "sendMessage:ok"
    /\ documents # <<>>
    /\ Len(messages) >= 2
    /\ messages[Len(messages) - 1] = UserMessage(<<"h">>)
    /\ messages[Len(messages)].references # <<>>

\* C8: when the chat request fails, the error state is set, the history is
\* left as it was and still ends with the request's user message, and the
\* document list and the session id are unchanged.
C8_ChatFailureKeepsHistory ==
    [][ lastOp'.op = "sendMessage:fail" =>
          /\ error' # "null"
          /\ messages' = messages
          /\ messages' # <<>>
          /\ messages'[Len(messages')] = UserMessage(lastOp'.arg.request.message)
          /\ documents' = documents
          /\ sessionId' = sessionId ]_vars

\* a failed chat request with documents in the list
C8_Witness ==
    /\ lastOp.op = "sendMessage:fail"
    /\ documents # <<>>
    /\ error = "Error al obtener respuesta"
    /\ messages # <<>>

\* C9: whenever no chat request is outstanding the loading flag is false, so a
\* sendMessage with a session and a non-blank input is not turned away.
C9_LoadingClearedWhenSettled ==
    chatReqs = {} =>
        /\ ~isLoading
        /\ (sessionId # "null" /\ ~Blank(inputMessage)) => ~SendRejected

\* a second send accepted after the first one failed
C9_Witness ==
    /\ lastOp.op = "sendMessage:sent"
    /\ nSends = 2
    /\ Len(messages) = 2
    /\ messages[1].role = "user"
    /\ messages[2].role = "user"

PollTerminal(status) == status \in {"completed", "failed"}

\* C10: a poll response whose job status is completed or failed leaves the
\* job's loop with nothing scheduled, and from then on the loop issues no
\* status request.
C10_NoPollAfterTerminal ==
    [][ /\ (lastOp'.op = "poll:ok" /\ PollTerminal(lastOp'.arg.response.status))
           => polls'[lastOp'.arg.job].pc = "done"
        /\ \A j \in Jobs : polls[j].pc = "done" => polls'[j] = polls[j] ]_vars

\* a job whose loop stopped on a terminal poll, some other operation having
\* run since, with requests still to spare
C10_Witness ==
    /\ \E j \in Jobs : polls[j].pc = "done"
    /\ lastOp.op \notin {"poll:ok", "mount"}
    /\ Issued < limit

-----------------------------------------------------------------------------
(* Documents *)

Keys(docs) == { docs[i].key : i \in 1..Len(docs) }

\* the document object that the drop and place `key` created
DocOf(docs, key) == docs[CHOOSE i \in 1..Len(docs) : docs[i].key = key]

\* one step, or none, along pending -> processing -> completed | failed
Forward(a, b) ==
    \/ a = b
    \/ <<a, b>> \in { <<"pending", "processing">>,
                      <<"processing", "completed">>,
                      <<"processing", "failed">> }

\* C11: every document enters the list as pending, and in every step each
\* document that stays in the list keeps its status or moves one step along
\* pending -> processing -> completed | failed: never back from processing
\* or from a terminal status, never to a terminal status from pending.
C11_StatusForwardOnly ==
    [][ /\ \A k \in Keys(documents) \cap Keys(documents') :
               Forward(DocOf(documents, k).status, DocOf(documents', k).status)
        /\ \A k \in Keys(documents') \ Keys(documents) :
               DocOf(documents', k).status = "pending" ]_vars

\* C12: in every reachable state no two documents of the list have the same id.
C12_UniqueIds ==
    \A i, k \in 1..Len(documents) : documents[i].id = documents[k].id => i = k

ResponseIds(status) ==
    { status.documents[k].document_id : k \in 1..Len(status.documents) }

\* C13: a step that applies a poll response keeps the list's length and order
\* and every document's id, filename and size; a document whose id is a
\* document_id of the response gets the status reported for that id, and every
\* other document keeps its status.
C13_PollMergeFrame ==
    [][ lastOp'.op = "poll:ok" =>
          LET status == lastOp'.arg.response IN
          /\ Len(documents') = Len(documents)
          /\ \A i \in 1..Len(documents) :
               LET old == documents[i]
                   new == documents'[i]
               IN /\ new.id = old.id
                  /\ new.filename = old.filename
                  /\ new.size = old.size
                  /\ new.key = old.key
                  /\ IF old.id \in ResponseIds(status)
                     THEN \E k \in 1..Len(status.documents) :
                              /\ status.documents[k].document_id = old.id
                              /\ new.status = status.documents[k].status
                     ELSE new.status = old.status ]_vars

\* a poll response has just been applied: it named one document, which is now
\* completed, and did not name another, which is still pending
C13_Witness ==
    /\ lastOp.op = "poll:ok"
    /\ \E i, k \in 1..Len(documents) :
         /\ documents[i].id \in ResponseIds(lastOp.arg.response)
         /\ documents[i].status = "completed"
         /\ documents[k].id \notin ResponseIds(lastOp.arg.response)
         /\ documents[k].status = "pending"

\* C14: whenever a job's loop has stopped on a terminal poll, every document
\* of the list that was dropped in that job's batch has a terminal status.
\* (The upload of the n-th drop gets job id n.)
C14_TerminalJobTerminalDocs ==
    \A j \in Jobs :
        polls[j].pc = "done" =>
            \A i \in 1..Len(documents) :
                documents[i].key[1] = j => documents[i].status \in TerminalStatuses

\* C15: while the session id is null no step issues an upload or a chat
\* request, adds a document or appends a message; once createSession has
\* settled without a session the id stays null; and the step in which
\* createSession fails leaves the id null and sets the error.
C15_NoSessionNoRequests ==
    [][ /\ sessionId = "null" =>
            /\ uploads' = uploads /\ nDrops' = nDrops
            /\ chatReqs' = chatReqs /\ nSends' = nSends
            /\ documents' = documents
            /\ messages' = messages
        /\ (sessionId = "null" /\ sessionReq = "settled") => sessionId' = "null"
        /\ lastOp'.op = "createSession:fail" =>
            /\ sessionId' = "null"
            /\ error' = "Error al conectar con el servidor" ]_vars

\* createSession has failed and files were dropped since, with a non-blank
\* input at hand: nothing was added and nothing was sent
C15_Witness ==
    /\ sessionId = "null"
    /\ sessionReq = "settled"
    /\ lastOp.op = "onDrop:return"
    /\ ~Blank(inputMessage)
    /\ documents = <<>> /\ uploads = {} /\ chatReqs = {}

ResponseFilenames(response) ==
    { response.documents[k].filename : k \in 1..Len(response.documents) }

\* C16: the step that applies an upload response keeps the list's length and
\* order; every document whose filename is a filename of the response gets
\* the document_id of the response's first entry with that filename and the
\* status processing, its other fields kept; every other document is left as
\* it was; and the loop of the returned job id, idle until then, has issued
\* its first status request, no other loop being touched.
C16_UploadReconciles ==
    [][ lastOp'.op = "onDrop:ok" =>
          LET response == lastOp'.arg.response IN
          /\ Len(documents') = Len(documents)
          /\ \A i \in 1..Len(documents) :
               LET old == documents[i]
                   new == documents'[i]
               IN IF old.filename \in ResponseFilenames(response)
                  THEN /\ \E k \in 1..Len(response.documents) :
                            /\ response.documents[k].filename = old.filename
                            /\ \A h \in 1..(k - 1) :
                                 response.documents[h].filename # old.filename
                            /\ new.id = response.documents[k].document_id
                       /\ new.status = "processing"
                       /\ new.filename = old.filename
                       /\ new.size = old.size
                  ELSE new = old
          /\ polls[response.job_id] = [pc |-> "idle", n |-> 0]
          /\ polls'[response.job_id] = [pc |-> "request", n |-> 1]
          /\ \A j \in Jobs \ {response.job_id} : polls'[j] = polls[j] ]_vars

\* an upload response has just been applied, with a document in the list that
\* it matched and a pending document of another name that it did not
C16_Witness ==
    /\ lastOp.op = "onDrop:ok"
    /\ \E i, k \in 1..Len(documents) :
         /\ documents[i].filename \in ResponseFilenames(lastOp.arg.response)
         /\ documents[i].status = "processing"
         /\ documents[k].filename \notin ResponseFilenames(lastOp.arg.response)
         /\ documents[k].status = "pending"

UserCount(msgs) == Cardinality({ i \in 1..Len(msgs) : msgs[i].role = "user" })

\* C17: in every step the old history is a prefix of the new one; the step of
\* an accepted send appends exactly the user message of the chat request it
\* issues, the latest send of all; and the history holds one user message for
\* each accepted send.
C17_HistoryAppendOnly ==
    [][ /\ Len(messages') >= Len(messages)
        /\ SubSeq(messages', 1, Len(messages)) = messages
        /\ lastOp'.op = "sendMessage:sent" =>
             \E req \in chatReqs' \ chatReqs :
                /\ req.n = nSends' /\ nSends' = nSends + 1
                /\ messages' = Append(messages, [role |-> "user",
                                                 content |-> req.message])
        /\ UserCount(messages') = nSends' ]_vars

\* two sends were accepted and the first was answered in between: user,
\* assistant, user, with the second request still in flight
C17_Witness ==
    /\ Len(messages) = 3
    /\ messages[1].role = "user"
    /\ messages[2].role = "assistant"
    /\ messages[3].role = "user"
    /\ chatReqs # {}

\* the documents of the list that the n-th drop created
BatchKeys(docs, n) == { k \in Keys(docs) : k[1] = n }

\* C19: the step in which a status request of job j fails leaves the loop of
\* j stopped and the documents, the error and every other loop as they were;
\* a loop stopped by a failure never issues a status request again; and from
\* then on every document of the job's batch that stays in the list keeps its
\* status.
C19_PollFailureStopsLoop ==
    [][ /\ lastOp'.op = "poll:fail" =>
             LET j == lastOp'.arg.job IN
             /\ polls[j].pc = "request"
             /\ polls'[j] = [pc |-> "error", n |-> polls[j].n]
             /\ \A h \in Jobs \ {j} : polls'[h] = polls[h]
             /\ documents' = documents
             /\ error' = error
        /\ \A j \in Jobs :
             polls[j].pc = "error" =>
                /\ polls'[j] = polls[j]
                /\ \A k \in BatchKeys(documents, j) \cap Keys(documents') :
                       DocOf(documents', k).status = DocOf(documents, k).status ]_vars

\* C20: the step in which the upload of the n-th drop fails sets the error,
\* touches no loop and leaves the list as it was, and the documents of that
\* drop still in the list are pending with the temporary ids they were
\* created with.
C20_UploadFailureKeepsPending ==
    [][ lastOp'.op = "onDrop:fail" =>
          /\ error' = "Error al subir documentos"
          /\ polls' = polls
          /\ documents' = documents
          /\ \A k \in BatchKeys(documents', lastOp'.arg.drop) :
                /\ DocOf(documents', k).status = "pending"
                /\ DocOf(documents', k).id[1] = "temp" ]_vars

-----------------------------------------------------------------------------
(* Transport errors *)

\* the body is JSON with a `detail` field that holds something
HasDetail(body) ==
    /\ body.kind = "json"
    /\ body.value.type = "object"
    /\ body.value.detail.type \notin {"undefined", "null"}

\* C18: a call of request or uploadDocuments that got a non-success response
\* throws an Error whose message is the body's `detail` when the body has
\* one, and otherwise (also with no body, or one that is not JSON) the generic
\* message made from the status code.
C18_ErrorMessageFromDetail ==
    (httpCall.method # "none" /\ ~Ok(httpCall.status)) =>
        /\ httpOutcome.kind = "throw"
        /\ httpOutcome.name = "Error"
        /\ httpOutcome.message =
              IF HasDetail(httpCall.body)
              THEN ToJsString(httpCall.body.value.detail)
              ELSE HttpErrorMessage(httpCall.status)

-----------------------------------------------------------------------------
(* Chat requests and history *)

\* C22: in every reachable state at most one chat request is in flight, and
\* isLoading is true exactly when one is.
C22_OneChatRequestWhileLoading ==
    /\ Cardinality(chatReqs) <= 1
    /\ isLoading <=> chatReqs # {}

\* a chat request is in flight, the flag is up, and a poll response was
\* applied meanwhile
C22_Witness ==
    /\ Cardinality(chatReqs) = 1
    /\ isLoading
    /\ lastOp.op = "poll:ok"

AssistantCount(msgs) ==
    Cardinality({ i \in 1..Len(msgs) : msgs[i].role = "assistant" })

\* C24: in every reachable state each assistant message of the history has a
\* user message right before it, and the history holds no more assistant
\* messages than user messages.
C24_AssistantFollowsUser ==
    /\ \A i \in 1..Len(messages) :
         messages[i].role = "assistant" =>
            /\ i > 1
            /\ messages[i - 1].role = "user"
    /\ AssistantCount(messages) <= UserCount(messages)

\* two sends, both answered: user, assistant, user, assistant
C24_Witness ==
    /\ Len(messages) = 4
    /\ messages[2].role = "assistant"
    /\ messages[4].role = "assistant"

-----------------------------------------------------------------------------
(* Deletion *)

\* the keys of the list, in list order
KeySeq(docs) == [i \in 1..Len(docs) |-> docs[i].key]

\* C23: a step that applies an upload response or a poll response holds the
\* same documents in the same order after it as before it; a document enters
\* the list only in the step of an accepted drop, as a document of that new
\* drop, so one that was deleted never comes back; and deleteDocument(id)
\* removes the documents with that id and leaves the others, in order, as
\* they were.
C23_DeleteNotUndone ==
    [][ /\ lastOp'.op \in {"onDrop:ok", "poll:ok"} =>
             KeySeq(documents') = KeySeq(documents)
        /\ \A k \in Keys(documents') \ Keys(documents) :
             /\ lastOp'.op = "onDrop:sent"
             /\ nDrops' = nDrops + 1
             /\ k[1] = nDrops'
        /\ lastOp'.op = "deleteDocument" =>
             /\ documents' = SelectSeq(documents, LAMBDA d : d.id # lastOp'.arg.id)
             /\ Len(documents') < Len(documents) ]_vars

\* an upload response has just been applied to a list from which a document
\* of its drop had been deleted meanwhile, another document being there to
\* take the response
C23_Witness ==
    /\ lastOp.op = "onDrop:ok"
    /\ Cardinality(BatchKeys(documents, lastOp.arg.response.job_id))
          < Len(lastOp.arg.response.documents)
    /\ documents # <<>>

-----------------------------------------------------------------------------
(* Polling *)

\* the operation that ran last applied a poll response for job j whose job
\* status is not terminal
NonTerminalPollApplied(j) ==
    /\ lastOp.op = "poll:ok"
    /\ lastOp.arg.job = j
    /\ lastOp.arg.response.status \notin TerminalStatuses

\* the same, with a terminal job status
TerminalPollApplied(j) ==
    /\ lastOp.op = "poll:ok"
    /\ lastOp.arg.job = j
    /\ lastOp.arg.response.status \in TerminalStatuses

\* C21: whenever a poll response for a job with a non-terminal job status
\* has been applied, the job's next status request is eventually issued (as
\* far as the run's requests reach); and whenever a poll response with the
\* job status completed or failed has been applied, the job's loop has
\* stopped and processingStatus is null.
C21_PollingGoesOnUntilTerminal ==
    /\ \A j \in Jobs :
         (NonTerminalPollApplied(j) /\ Issued < limit)
            ~> (polls[j].pc = "request" \/ Issued >= limit)
    /\ [](\A j \in Jobs :
            TerminalPollApplied(j) =>
               /\ polls[j].pc = "done"
               /\ processingStatus = "null")

\* a loop that polled more than once has just stopped on a terminal poll
C21_Witness ==
    \E j \in Jobs :
        /\ TerminalPollApplied(j)
        /\ polls[j].n >= 2
        /\ polls[j].pc = "done"
        /\ processingStatus = "null"

=============================================================================
